---- MODULE Spec2Model ----
(***************************************************************************)
(* Model of app/services/tiktok_extractor.py (class TikTokExtractor).      *)
(*                                                                         *)
(* Text (URLs, page HTML, JSON source) is a sequence of tokens; a token    *)
(* is an indivisible symbol of the alphabet, so substring search, prefix   *)
(* tests and regular-expression search are computed on token sequences.    *)
(* Decoded JSON (and the Python values made from it) is a tagged record:   *)
(*   [t |-> "null"]             None / null                                *)
(*   [t |-> "str",  s  |-> text]                                           *)
(*   [t |-> "num",  n  |-> Int]                                            *)
(*   [t |-> "list", xs |-> <<values>>]                                     *)
(*   [t |-> "obj",  kv |-> << <<key, value>>, ... >>]  (insertion order)   *)
(***************************************************************************)
EXTENDS Integers, Sequences, FiniteSets, TLC

VARIABLES
    pc,              \* position of the call in progress
    url,             \* extract_video_data's argument
    normalized_url,  \* result of _normalize_url
    fetch_headers,   \* the dict fetch_headers of _fetch_html (its Referer)
    client_headers,  \* the headers held by the httpx.AsyncClient (its Referer)
    log,             \* requests issued and responses received, in order
    html,            \* page text handed to _parse_sigi_state
    video_id,        \* content identifier
    sigi_data,       \* decoded structure handed to _extract_from_sigi
    located,         \* what the record locator did: strategies tried, strategy used
    outcome          \* what the call returned or raised

vars == <<pc, url, normalized_url, fetch_headers, client_headers, log, html,
          video_id, sigi_data, located, outcome>>

(***************************************************************************)
(* Python values                                                           *)
(***************************************************************************)
Null == [t |-> "null"]
Str(s) == [t |-> "str", s |-> s]
Num(n) == [t |-> "num", n |-> n]
List(xs) == [t |-> "list", xs |-> xs]
Obj(kv) == [t |-> "obj", kv |-> kv]
EmptyObj == Obj(<<>>)
EmptyList == List(<<>>)

\* bool(v)
Truthy(v) ==
    CASE v.t = "null" -> FALSE
      [] v.t = "str"  -> v.s # <<>>
      [] v.t = "num"  -> v.n # 0
      [] v.t = "list" -> v.xs # <<>>
      [] v.t = "obj"  -> v.kv # <<>>

\* k in d, for a dict d
HasKey(d, k) == \E i \in 1..Len(d.kv) : d.kv[i][1] = k

\* d[k], for a dict d holding k
Lookup(d, k) == d.kv[CHOOSE i \in 1..Len(d.kv) : d.kv[i][1] = k][2]

\* d.get(k, dflt), for a dict d
Get(d, k, dflt) == IF HasKey(d, k) THEN Lookup(d, k) ELSE dflt

\* list(d.values()), for a dict d
Values(d) == [i \in 1..Len(d.kv) |-> d.kv[i][2]]

\* list(d.keys()) as Python strings, for a dict d
Keys(d) == [i \in 1..Len(d.kv) |-> Str(<<d.kv[i][1]>>)]

\* a or b
PyOr(a, b) == IF Truthy(a) THEN a ELSE b

\* x in xs, for a Python list given as a sequence
InSeq(x, xs) == \E i \in 1..Len(xs) : xs[i] = x

\* str(v) for the values that reach it (an id field)
PyStr(v) ==
    CASE v.t = "str"  -> v.s
      [] v.t = "num"  -> <<ToString(v.n)>>
      [] v.t = "null" -> <<"None">>
      [] OTHER        -> <<"<repr>">>

(***************************************************************************)
(* Text                                                                    *)
(***************************************************************************)
\* s.startswith(p)
StartsWith(s, p) == Len(s) >= Len(p) /\ SubSeq(s, 1, Len(p)) = p

\* position of the first occurrence of p in s at or after position from; 0 if none
FindFrom(s, p, from) ==
    LET hits == {i \in from..(Len(s) - Len(p) + 1) : SubSeq(s, i, i + Len(p) - 1) = p}
    IN IF hits = {} THEN 0 ELSE CHOOSE i \in hits : \A j \in hits : i <= j

\* p in s
Contains(s, p) == FindFrom(s, p, 1) # 0

\* s.replace(old, new, 1)
ReplaceFirst(s, old, new) ==
    LET i == FindFrom(s, old, 1)
    IN IF i = 0 THEN s
       ELSE SubSeq(s, 1, i - 1) \o new \o SubSeq(s, i + Len(old), Len(s))

(***************************************************************************)
(* What a call returns or raises.  A raised ValueError is named by the     *)
(* message's classification; any other exception by its Python type.       *)
(***************************************************************************)
NoOutcome == [kind |-> "none"]
Ok(rec) == [kind |-> "ok", rec |-> rec]
Raise(cls) == [kind |-> "err", error |-> cls]

(***************************************************************************)
(* _extract_from_sigi, part 1: the record locator (lines 201-253).         *)
(* Strategies are numbered 1..6 in the order the code evaluates them:      *)
(*   1 __DEFAULT_SCOPE__ / videoDetail      (code "Strategy 1")            *)
(*   2 top-level itemStruct                 (code "Strategy 1.5")          *)
(*   3 ItemModule[video_id]                 (code "Strategy 2")            *)
(*   4 recursive search                     (code "Strategy 3")            *)
(*   5 first ItemModule entry               (code "Final fallback", if)    *)
(*   6 itemInfo.itemStruct                  (code "Final fallback", else)  *)
(* A strategy's result is [exc, item]: exc = "none" or the exception that  *)
(* leaves the strategy.                                                    *)
(***************************************************************************)
Yield(item) == [exc |-> "none", item |-> item]
Throw(e) == [exc |-> e, item |-> Null]

\* the body of the try block of Strategy 1 (lines 205-212)
Strategy1Body(sigi) ==
    IF sigi.t # "obj" THEN Throw("AttributeError")
    ELSE LET default_scope == Get(sigi, "__DEFAULT_SCOPE__", EmptyObj) IN
    IF default_scope.t # "obj" THEN Throw("AttributeError")
    ELSE LET scoped == Get(default_scope, "webapp.video-detail", EmptyObj)
             video_detail == IF ~Truthy(scoped)
                             THEN Get(sigi, "videoDetail", EmptyObj)
                             ELSE scoped
         IN
    IF ~Truthy(video_detail) THEN Yield(Null)
    ELSE IF video_detail.t # "obj" THEN Throw("AttributeError")
    ELSE LET item_info == Get(video_detail, "itemInfo", EmptyObj) IN
    IF item_info.t # "obj" THEN Throw("AttributeError")
    ELSE Yield(Get(item_info, "itemStruct", Null))

\* Strategy 1 with its except clause (lines 204-214): the exception is logged
\* and item stays None
Strategy1(sigi) ==
    LET r == Strategy1Body(sigi)
    IN IF r.exc # "none" THEN Yield(Null) ELSE r

\* Strategy2 looking under the wrong key
Strategy2WrongKey(sigi, prev) ==
    IF sigi.t = "obj" /\ HasKey(sigi, "itemInfo") THEN Yield(Lookup(sigi, "itemInfo"))
    ELSE Yield(prev)

\* lines 217-219; prev is the item left by Strategy 1
Strategy2(sigi, prev) ==
    CASE sigi.t = "obj" ->
            IF HasKey(sigi, "itemStruct") THEN Yield(Lookup(sigi, "itemStruct"))
            ELSE Yield(prev)
      [] sigi.t = "list" ->
            IF InSeq(Str(<<"itemStruct">>), sigi.xs) THEN Throw("TypeError")
            ELSE Yield(prev)
      [] sigi.t = "str" ->
            IF Contains(sigi.s, <<"itemStruct">>) THEN Throw("TypeError")
            ELSE Yield(prev)
      [] OTHER -> Throw("TypeError")

\* line 223
Strategy3(sigi, vid) ==
    IF sigi.t # "obj" THEN Throw("AttributeError")
    ELSE LET item_module == Get(sigi, "ItemModule", EmptyObj) IN
    IF item_module.t # "obj" THEN Throw("AttributeError")
    ELSE Yield(Get(item_module, vid, Null))

\* find_video_item (lines 227-240); FindVideoItemIn is its two for loops
RECURSIVE FindVideoItem(_, _), FindVideoItemIn(_, _, _)
FindVideoItem(data, target_id) ==
    CASE data.t = "obj" ->
            IF PyStr(Get(data, "id", Null)) = <<target_id>> /\ HasKey(data, "video")
            THEN data
            ELSE FindVideoItemIn(Values(data), 1, target_id)
      [] data.t = "list" -> FindVideoItemIn(data.xs, 1, target_id)
      [] OTHER -> Null

FindVideoItemIn(vs, i, target_id) ==
    IF i > Len(vs) THEN Null
    ELSE LET res == FindVideoItem(vs[i], target_id)
         IN IF Truthy(res) THEN res ELSE FindVideoItemIn(vs, i + 1, target_id)

\* line 242
Strategy4(sigi, vid) == Yield(FindVideoItem(sigi, vid))

\* line 246: 'ItemModule' in sigi_data and sigi_data['ItemModule'].  The
\* fallback is reached only past Strategy 3, so sigi is a dict and its
\* ItemModule, when present, is a dict.
TakesFirstEntry(sigi) == HasKey(sigi, "ItemModule") /\ Truthy(Lookup(sigi, "ItemModule"))

\* line 247
Strategy5(sigi) == Yield(Values(Lookup(sigi, "ItemModule"))[1])

\* line 250
Strategy6(sigi) ==
    LET item_info == Get(sigi, "itemInfo", EmptyObj) IN
    IF item_info.t # "obj" THEN Throw("AttributeError")
    ELSE Yield(Get(item_info, "itemStruct", Null))

\* lines 244-250: the if/else holding strategies 5 and 6
FinalFallback(sigi) ==
    IF TakesFirstEntry(sigi)
    THEN [r |-> Strategy5(sigi), tried |-> <<5>>]
    ELSE [r |-> Strategy6(sigi), tried |-> <<6>>]

\* lines 201-253: [exc, item, tried, found]; tried lists the strategies
\* evaluated, found is the strategy whose item is used (0 if none)
Locate(sigi, vid) ==
    LET r1 == Strategy1(sigi) IN
    IF Truthy(r1.item) THEN [exc |-> "none", item |-> r1.item, tried |-> <<1>>, found |-> 1]
    ELSE LET r2 == Strategy2(sigi, r1.item) IN
    IF r2.exc # "none" THEN [exc |-> r2.exc, item |-> Null, tried |-> <<1, 2>>, found |-> 0]
    ELSE IF Truthy(r2.item) THEN [exc |-> "none", item |-> r2.item, tried |-> <<1, 2>>, found |-> 2]
    ELSE LET r3 == Strategy3(sigi, vid) IN
    IF r3.exc # "none" THEN [exc |-> r3.exc, item |-> Null, tried |-> <<1, 2, 3>>, found |-> 0]
    ELSE IF Truthy(r3.item) THEN [exc |-> "none", item |-> r3.item, tried |-> <<1, 2, 3>>, found |-> 3]
    ELSE LET r4 == Strategy4(sigi, vid) IN
    IF Truthy(r4.item) THEN [exc |-> "none", item |-> r4.item, tried |-> <<1, 2, 3, 4>>, found |-> 4]
    ELSE LET f == FinalFallback(sigi) IN
    IF f.r.exc # "none"
    THEN [exc |-> f.r.exc, item |-> Null, tried |-> <<1, 2, 3, 4>> \o f.tried, found |-> 0]
    ELSE IF Truthy(f.r.item)
    THEN [exc |-> "none", item |-> f.r.item, tried |-> <<1, 2, 3, 4>> \o f.tried,
          found |-> f.tried[1]]
    ELSE [exc |-> "record_not_found", item |-> Null, tried |-> <<1, 2, 3, 4>> \o f.tried,
          found |-> 0]

(***************************************************************************)
(* _extract_from_sigi, part 2: field normalisation (lines 255-312).        *)
(***************************************************************************)
\* the key of sorted() at line 276: x.get('Bitrate', 0), a number
BitrateKey(x) == Get(x, "Bitrate", Num(0)).n

\* sorted(bitrates, key=..., reverse=True) at line 276: descending and stable
RECURSIVE SortedBitrates(_)
SortedBitrates(xs) ==
    IF xs = <<>> THEN <<>>
    ELSE LET top == CHOOSE i \in 1..Len(xs) :
                       /\ \A j \in 1..Len(xs) : BitrateKey(xs[j]) <= BitrateKey(xs[i])
                       /\ \A j \in 1..(i - 1) : BitrateKey(xs[j]) < BitrateKey(xs[i])
         IN <<xs[top]>> \o SortedBitrates(SubSeq(xs, 1, top - 1) \o SubSeq(xs, top + 1, Len(xs)))

\* lines 279-280: for u in url_list: if u not in urls: urls.append(u)
RECURSIVE AppendNew(_, _, _)
AppendNew(us, i, urls) ==
    IF i > Len(us) THEN urls
    ELSE AppendNew(us, i + 1, IF InSeq(us[i], urls) THEN urls ELSE Append(urls, us[i]))

\* what "for u in url_list" iterates over; [exc, items]
Iterate(v) ==
    CASE v.t = "list" -> [exc |-> "none", items |-> v.xs]
      [] v.t = "obj"  -> [exc |-> "none", items |-> Keys(v)]
      [] v.t = "str"  -> [exc |-> "none", items |-> [i \in 1..Len(v.s) |-> Str(<<v.s[i]>>)]]
      [] OTHER        -> [exc |-> "TypeError", items |-> <<>>]

\* lines 277-280: the loop over sorted_bitrates; an exception leaves the loop
\* with what was appended so far (the bare except at line 281)
RECURSIVE AppendBitrateUrls(_, _, _)
AppendBitrateUrls(brs, i, urls) ==
    IF i > Len(brs) THEN urls
    ELSE LET play_addr == Get(brs[i], "PlayAddr", EmptyObj) IN
    IF play_addr.t # "obj" THEN urls
    ELSE LET url_list == Iterate(Get(play_addr, "UrlList", EmptyList)) IN
    IF url_list.exc # "none" THEN urls
    ELSE AppendBitrateUrls(brs, i + 1, AppendNew(url_list.items, 1, urls))

\* lines 273-282: Source 2.  sorted() raises, and the except clause passes,
\* unless bitrates is a list of dicts (or is empty)
BitrateUrls(video_obj, urls) ==
    IF ~HasKey(video_obj, "bitrateInfo") THEN urls
    ELSE LET bitrates == Lookup(video_obj, "bitrateInfo") IN
    IF bitrates.t # "list" THEN urls
    ELSE IF \E i \in 1..Len(bitrates.xs) : bitrates.xs[i].t # "obj" THEN urls
    ELSE AppendBitrateUrls(SortedBitrates(bitrates.xs), 1, urls)

\* lines 266-287: the collected list urls, for a dict item and dict video_obj
CollectUrls(item, video_obj) ==
    LET download == Get(video_obj, "downloadAddr", Null)
        urls1 == IF Truthy(download) THEN <<download>> ELSE <<>>
        urls2 == BitrateUrls(video_obj, urls1)
        p_addr == PyOr(Get(video_obj, "playAddr", Null), Get(item, "videoUrl", Null))
    IN IF Truthy(p_addr) /\ ~InSeq(p_addr, urls2) THEN Append(urls2, p_addr) ELSE urls2

\* lines 295-296, for a string u
CleanUrl(u) ==
    IF StartsWith(u, <<"//">>) THEN <<"https:">> \o u
    ELSE IF StartsWith(u, <<"http:", "//">>)
         THEN ReplaceFirst(u, <<"http:", "//">>, <<"https:", "//">>)
         ELSE u

\* lines 293-297, for a list of strings
CleanUrls(urls) == [i \in 1..Len(urls) |-> CleanUrl(urls[i].s)]

\* line 303; [exc, v]
AuthorField(author_info) ==
    IF author_info.t # "obj" THEN [exc |-> "AttributeError", v |-> Null]
    ELSE [exc |-> "none",
          v |-> PyOr(PyOr(Get(author_info, "uniqueId", Null), Get(author_info, "nickname", Null)),
                     Str(<<"unknown">>))]

\* line 304; [exc, v]
CaptionField(item) ==
    LET desc == Get(item, "desc", Null)
        contents == Get(item, "contents", List(<<EmptyObj>>))
    IN
    IF Truthy(desc) THEN [exc |-> "none", v |-> desc]
    ELSE CASE contents.t = "list" ->
                 IF contents.xs = <<>> THEN [exc |-> "IndexError", v |-> Null]
                 ELSE IF contents.xs[1].t # "obj" THEN [exc |-> "AttributeError", v |-> Null]
                 ELSE [exc |-> "none", v |-> Get(contents.xs[1], "desc", Str(<<>>))]
           [] contents.t = "obj" -> [exc |-> "KeyError", v |-> Null]
           [] contents.t = "str" ->
                 IF contents.s = <<>> THEN [exc |-> "IndexError", v |-> Null]
                 ELSE [exc |-> "AttributeError", v |-> Null]
           [] OTHER -> [exc |-> "TypeError", v |-> Null]

\* line 305; [exc, v]
MusicField(music) ==
    IF music.t # "obj" THEN [exc |-> "AttributeError", v |-> Null]
    ELSE [exc |-> "none",
          v |-> PyOr(PyOr(Get(music, "title", Null), Get(music, "authorName", Null)),
                     Str(<<"Original Sound">>))]

\* line 256
VideoObjNoDefault(item) == Get(item, "video", Null)
VideoObj(item) == Get(item, "video", EmptyObj)

\* lines 255-312: the normalised record, or the error raised, for the located item
NormalizeFields(item, vid) ==
    IF item.t # "obj" THEN Raise("AttributeError")
    ELSE LET video_obj == VideoObj(item)
             author0 == Get(item, "author", EmptyObj)
             author_info == IF ~Truthy(author0) /\ HasKey(item, "authorName")
                            THEN Obj(<< <<"uniqueId", Get(item, "authorName", Null)>> >>)
                            ELSE author0
             stats == PyOr(Get(item, "stats", EmptyObj), Get(item, "statsV2", EmptyObj))
             music == Get(item, "music", EmptyObj)
         IN
    IF video_obj.t # "obj" THEN Raise("AttributeError")
    ELSE LET urls == CollectUrls(item, video_obj) IN
    IF urls = <<>> THEN Raise("no_playable_media")
    ELSE IF \E i \in 1..Len(urls) : urls[i].t # "str" THEN Raise("AttributeError")
    ELSE LET clean_urls == CleanUrls(urls)
             author == AuthorField(author_info)
             caption == CaptionField(item)
             title == MusicField(music)
         IN
    IF author.exc # "none" THEN Raise(author.exc)
    ELSE IF caption.exc # "none" THEN Raise(caption.exc)
    ELSE IF title.exc # "none" THEN Raise(title.exc)
    ELSE IF stats.t # "obj" THEN Raise("AttributeError")
    ELSE Ok([video_id         |-> vid,
             mp4_url          |-> clean_urls[1],
             alternative_urls |-> Tail(clean_urls),
             author           |-> author.v,
             caption          |-> caption.v,
             music            |-> title.v,
             duration         |-> Get(video_obj, "duration", Num(0)),
             play_count       |-> Get(stats, "playCount", Num(0)),
             like_count       |-> Get(stats, "diggCount", Get(stats, "likeCount", Num(0))),
             comment_count    |-> Get(stats, "commentCount", Num(0)),
             share_count      |-> Get(stats, "shareCount", Num(0)),
             created_at       |-> Get(item, "createTime", Num(0))])

\* _extract_from_sigi (lines 197-312)
ExtractFromSigi(sigi, vid) ==
    LET loc == Locate(sigi, vid)
    IN IF loc.exc # "none" THEN Raise(loc.exc) ELSE NormalizeFields(loc.item, vid)

(***************************************************************************)
(* json.loads on token text.  JSON source is compact: "{" "}" "[" "]" ":"  *)
(* "," are tokens, a string is a quote token, its content tokens and a     *)
(* quote token, a number is one token, null is one token.                  *)
(***************************************************************************)
MaxNumber == 99     \* numbers 0..MaxNumber can appear in JSON source

Quote == "\""
NumberTokens == {ToString(n) : n \in 0..MaxNumber}
NumberOf(tok) == CHOOSE n \in 0..MaxNumber : ToString(n) = tok

DecodeError == [ok |-> FALSE, v |-> Null, next |-> 0]
Decoded(v, next) == [ok |-> TRUE, v |-> v, next |-> next]

\* the value starting at ts[i]: [ok, v, next], next the position after it
RECURSIVE ParseValue(_, _), ParseMembers(_, _, _), ParseElements(_, _, _)
ParseValue(ts, i) ==
    IF i > Len(ts) THEN DecodeError
    ELSE CASE ts[i] = "{" ->
                 IF i < Len(ts) /\ ts[i + 1] = "}" THEN Decoded(EmptyObj, i + 2)
                 ELSE ParseMembers(ts, i + 1, <<>>)
           [] ts[i] = "[" ->
                 IF i < Len(ts) /\ ts[i + 1] = "]" THEN Decoded(EmptyList, i + 2)
                 ELSE ParseElements(ts, i + 1, <<>>)
           [] ts[i] = Quote ->
                 LET j == FindFrom(ts, <<Quote>>, i + 1)
                 IN IF j = 0 THEN DecodeError ELSE Decoded(Str(SubSeq(ts, i + 1, j - 1)), j + 1)
           [] ts[i] = "null" -> Decoded(Null, i + 1)
           [] ts[i] \in NumberTokens -> Decoded(Num(NumberOf(ts[i])), i + 1)
           [] OTHER -> DecodeError

\* "key": value pairs up to the closing brace; a later pair with the same
\* key replaces the earlier value
ParseMembers(ts, i, acc) ==
    IF i + 3 > Len(ts) \/ ts[i] # Quote \/ ts[i + 1] = Quote \/ ts[i + 2] # Quote \/ ts[i + 3] # ":"
    THEN DecodeError
    ELSE LET r == ParseValue(ts, i + 4)
             key == ts[i + 1]
             kept == IF \E k \in 1..Len(acc) : acc[k][1] = key
                     THEN [k \in 1..Len(acc) |-> IF acc[k][1] = key THEN <<key, r.v>> ELSE acc[k]]
                     ELSE Append(acc, <<key, r.v>>)
         IN IF ~r.ok \/ r.next > Len(ts) THEN DecodeError
            ELSE IF ts[r.next] = "," THEN ParseMembers(ts, r.next + 1, kept)
            ELSE IF ts[r.next] = "}" THEN Decoded(Obj(kept), r.next + 1)
            ELSE DecodeError

ParseElements(ts, i, acc) ==
    LET r == ParseValue(ts, i)
    IN IF ~r.ok \/ r.next > Len(ts) THEN DecodeError
       ELSE IF ts[r.next] = "," THEN ParseElements(ts, r.next + 1, Append(acc, r.v))
       ELSE IF ts[r.next] = "]" THEN Decoded(List(Append(acc, r.v)), r.next + 1)
       ELSE DecodeError

IsSpace(tok) == tok \in {" ", "\n"}

\* s.strip()
RECURSIVE Strip(_)
Strip(s) ==
    IF s = <<>> THEN s
    ELSE IF IsSpace(s[1]) THEN Strip(Tail(s))
    ELSE IF IsSpace(s[Len(s)]) THEN Strip(SubSeq(s, 1, Len(s) - 1))
    ELSE s

\* json.loads on stripped text ts: [ok, v]; the whole text is one value
LoadsStripped(ts) ==
    CHOOSE res \in {IF r.ok /\ r.next = Len(ts) + 1 THEN [ok |-> TRUE, v |-> r.v]
                                                     ELSE [ok |-> FALSE, v |-> Null] :
                    r \in {ParseValue(ts, 1)}} : TRUE

\* json.loads(text); outer white space is skipped
JsonLoads(text) == CHOOSE res \in {LoadsStripped(ts) : ts \in {Strip(text)}} : TRUE

(***************************************************************************)
(* re.search(pattern, html, re.DOTALL) for the patterns of                 *)
(* _parse_sigi_state (lines 161-168 and 184): [m, text], text the span the *)
(* code decodes.                                                           *)
(***************************************************************************)
NoMatch == [m |-> FALSE, text |-> <<>>]
Match(text) == [m |-> TRUE, text |-> text]

CloseTag == "</script>"
\* the tokens that hold the character >; each ends with it
GtTokens == {">", "</script>", "<script>"}
\* the tokens that are one character
CharTokens == {"[", "]", "'", ".", "=", ";", "{", "}", ":", ",", " ", "\n", ">", "S", Quote}

\* least element of a non-empty set of positions
Least(S) == CHOOSE i \in S : \A j \in S : i <= j

\* first position >= i of page holding no white space (Len(page) + 1 if none)
SkipSpace(page, i) ==
    Least({j \in i..(Len(page) + 1) : j = Len(page) + 1 \/ ~IsSpace(page[j])})

\* <script id="..." type="application/json">(.*?)</script>, line 162
ExactTagSearch(page, open) ==
    LET i == FindFrom(page, open, 1)
        e == IF i = 0 THEN 0 ELSE FindFrom(page, <<CloseTag>>, i + Len(open))
    IN IF e = 0 THEN NoMatch ELSE Match(SubSeq(page, i + Len(open), e - 1))

\* <script id="..."[^>]*>(.*?)</script>, lines 163-165
TagSearch(page, open) ==
    LET i == FindFrom(page, <<open>>, 1)
        gts == IF i = 0 THEN {} ELSE {j \in (i + 1)..Len(page) : page[j] \in GtTokens}
        e == IF gts = {} THEN 0 ELSE FindFrom(page, <<CloseTag>>, Least(gts) + 1)
    IN IF e = 0 THEN NoMatch ELSE Match(SubSeq(page, Least(gts) + 1, e - 1))

\* head\s*=\s*({.*?});  matched at position i, where head is "window" and
\* tail, a sequence of sets of tokens, one set for each following position;
\* the end of the group (0 if the pattern does not match at i)
AssignEndAt(page, i, tail) ==
    IF i + Len(tail) > Len(page) \/ page[i] # "window"
       \/ \E k \in 1..Len(tail) : page[i + k] \notin tail[k]
    THEN 0
    ELSE LET eq == SkipSpace(page, i + Len(tail) + 1)
             brace == IF eq > Len(page) \/ page[eq] # "=" THEN 0 ELSE SkipSpace(page, eq + 1)
         IN IF brace = 0 \/ brace > Len(page) THEN 0
            ELSE IF page[brace] # "{" THEN 0
            ELSE LET e == FindFrom(page, <<"}", ";">>, brace + 1)
                 IN e

AssignStartAt(page, i, tail) ==
    SkipSpace(page, SkipSpace(page, i + Len(tail) + 1) + 1)

AssignSearch(page, tail) ==
    LET hits == {i \in 1..Len(page) : AssignEndAt(page, i, tail) # 0}
    IN IF hits = {} THEN NoMatch
       ELSE Match(SubSeq(page, AssignStartAt(page, Least(hits), tail),
                         AssignEndAt(page, Least(hits), tail)))

\* line 166: window[\'SIGI_STATE\']\s*=\s*({.*?});  The brackets are not
\* escaped, so they form a character class: one character of 'SIGI_STATE'
SigiStateClass == {"'", "S", "I", "G", "_", "T", "A", "E"}
SigiAssignTail == <<SigiStateClass>>

\* line 167: window.__INITIAL_STATE__\s*=\s*({.*?});  the dot is any character
InitialAssignTail == <<CharTokens, {"__INITIAL_STATE__"}>>

\* the six patterns of lines 161-168, in order
PatternSearch(k, page) ==
    CASE k = 1 -> ExactTagSearch(page, <<"<script id=\"api-data\"", " type=\"application/json\"", ">">>)
      [] k = 2 -> TagSearch(page, "<script id=\"__UNIVERSAL_DATA_FOR_REHYDRATION__\"")
      [] k = 3 -> TagSearch(page, "<script id=\"SIGI_STATE\"")
      [] k = 4 -> TagSearch(page, "<script id=\"sigi-persisted-data\"")
      [] k = 5 -> AssignSearch(page, SigiAssignTail)
      [] k = 6 -> AssignSearch(page, InitialAssignTail)

NumPatterns == 6

\* line 184: \{"ItemModule":.*?"\}\}
LastResortOpen == <<"{", Quote, "ItemModule", Quote, ":">>
LastResortSearch(page) ==
    LET i == FindFrom(page, LastResortOpen, 1)
        e == IF i = 0 THEN 0 ELSE FindFrom(page, <<Quote, "}", "}">>, i + Len(LastResortOpen))
    IN IF e = 0 THEN NoMatch ELSE Match(SubSeq(page, i, e + 2))

(***************************************************************************)
(* _parse_sigi_state (lines 157-195)                                       *)
(***************************************************************************)
\* lines 172-176 for pattern k: [m, ok, v]; m: the pattern matches, ok: its
\* capture decodes, v: the decoded value
TryPattern(k, page) ==
    CHOOSE res \in {IF ~found.m THEN [m |-> FALSE, ok |-> FALSE, v |-> Null]
                    ELSE [m |-> TRUE] @@ JsonLoads(found.text) :
                    found \in {PatternSearch(k, page)}} : TRUE

\* pattern k yields a decoded value: it matches and its capture decodes
PatternDecodes(k, page) == TryPattern(k, page).ok

\* lines 170-180: json_data after the loop; [set, v], set FALSE while it is None
LoopResult(page) ==
    LET ks == {k \in 1..NumPatterns : PatternDecodes(k, page)}
    IN IF ks = {} THEN [set |-> FALSE, v |-> Null]
       ELSE [set |-> TRUE, v |-> TryPattern(Least(ks), page).v]

\* "if not json_data" at lines 182 and 191
NotJsonData(j) == ~j.set \/ ~Truthy(j.v)

\* lines 184-189: the last resort; [ok, v]
LastResort(page) ==
    CHOOSE res \in {IF span.m THEN JsonLoads(span.text) ELSE [ok |-> FALSE, v |-> Null] :
                    span \in {LastResortSearch(page)}} : TRUE

\* lines 182-189: json_data after the last resort, j being json_data after the loop
WithLastResort(j, page) ==
    IF NotJsonData(j) /\ LastResort(page).ok
    THEN [set |-> TRUE, v |-> LastResort(page).v]
    ELSE j

AfterLastResort(page) ==
    CHOOSE res \in {WithLastResort(j, page) : j \in {LoopResult(page)}} : TRUE

\* the json_data handed to _extract_from_sigi (Null when the call raises first)
HandedOver(page) ==
    CHOOSE res \in {IF NotJsonData(j) THEN Null ELSE j.v : j \in {AfterLastResort(page)}} : TRUE

\* lines 191-195, j being json_data after the last resort
ParseOutcome(j, vid) ==
    IF NotJsonData(j) THEN Raise("data_not_found") ELSE ExtractFromSigi(j.v, vid)

\* _parse_sigi_state (lines 157-195)
ParseSigiState(page, vid) ==
    CHOOSE res \in {ParseOutcome(j, vid) : j \in {AfterLastResort(page)}} : TRUE

(***************************************************************************)
(* Inputs of _extract_from_sigi: decoded structures.                       *)
(***************************************************************************)
MaxBitrates == 2     \* entries of a bitrateInfo list
MaxUrlList == 1      \* entries of one UrlList

VideoIds == {"7", "8"}

Absent == [t |-> "absent"]

\* a dict of the pairs whose value is present, in order
MkObj(pairs) == Obj(SelectSeq(pairs, LAMBDA p : p[2] # Absent))

SeqsUpTo(S, n) == UNION {[1..k -> S] : k \in 0..n}

UrlProtoRel == Str(<<"//", "h/a">>)            \* //h/a
UrlHttp     == Str(<<"http:", "//", "h/a">>)   \* http://h/a
UrlHttps    == Str(<<"https:", "//", "h/a">>)  \* https://h/a
UrlHttpsB   == Str(<<"https:", "//", "h/b">>)  \* https://h/b
UrlRelative == Str(<<"/", "rel/a">>)           \* /rel/a
UrlEmpty    == Str(<<>>)

BitrateEntries ==
    {MkObj(<< <<"Bitrate", Num(b)>>,
              <<"PlayAddr", Obj(<< <<"UrlList", List(us)>> >>)>> >>) :
        b \in {1, 2}, us \in SeqsUpTo({UrlProtoRel, UrlHttps}, MaxUrlList)}

VideoObjs ==
    {MkObj(<< <<"downloadAddr", d>>, <<"bitrateInfo", b>>, <<"playAddr", p>> >>) :
        d \in {Absent, UrlProtoRel},
        b \in {Absent} \cup {List(bs) : bs \in SeqsUpTo(BitrateEntries, MaxBitrates)},
        p \in {Absent, UrlHttp, UrlRelative}}

\* item records that differ in their URL sources
UrlItems ==
    {MkObj(<< <<"id", Str(<<"7">>)>>, <<"video", v>>, <<"videoUrl", u>> >>) :
        v \in {Absent} \cup VideoObjs, u \in {Absent, UrlHttps}}

\* item records with the remaining shapes the normaliser distinguishes
OddItems ==
    { \* an empty string inside a UrlList
      Obj(<< <<"video", Obj(<< <<"bitrateInfo", List(<<
          Obj(<< <<"PlayAddr", Obj(<< <<"UrlList", List(<<UrlEmpty, UrlHttpsB>>)>> >>)>> >>) >>)>> >>)>> >>),
      \* a variant whose PlayAddr is null, after a good one
      Obj(<< <<"video", Obj(<< <<"bitrateInfo", List(<<
          Obj(<< <<"Bitrate", Num(2)>>, <<"PlayAddr", Obj(<< <<"UrlList", List(<<UrlHttpsB>>)>> >>)>> >>),
          Obj(<< <<"Bitrate", Num(1)>>, <<"PlayAddr", Null>> >>) >>)>> >>)>> >>),
      \* bitrateInfo that is no list
      Obj(<< <<"video", Obj(<< <<"bitrateInfo", Str(<<"x">>)>>, <<"playAddr", UrlHttpsB>> >>)>> >>),
      \* video that is null
      Obj(<< <<"video", Null>> >>),
      \* a URL that is no string
      Obj(<< <<"video", Obj(<< <<"playAddr", Num(5)>> >>)>> >>),
      \* metadata present
      Obj(<< <<"id", Str(<<"7">>)>>,
             <<"video", Obj(<< <<"playAddr", UrlHttpsB>>, <<"duration", Num(15)>> >>)>>,
             <<"author", Obj(<< <<"nickname", Str(<<"nick">>)>> >>)>>,
             <<"desc", Str(<<"caption">>)>>,
             <<"music", Obj(<< <<"authorName", Str(<<"dj">>)>> >>)>>,
             <<"statsV2", Obj(<< <<"likeCount", Num(10)>>, <<"commentCount", Num(2)>> >>)>>,
             <<"createTime", Num(99)>> >>),
      Obj(<< <<"video", Obj(<< <<"playAddr", UrlHttpsB>> >>)>>, <<"authorName", Str(<<"flat">>)>>,
             <<"contents", List(<<Obj(<< <<"desc", Str(<<"c0">>)>> >>)>>)>> >>),
      \* metadata of unexpected types
      Obj(<< <<"video", Obj(<< <<"playAddr", UrlHttpsB>> >>)>>, <<"author", Str(<<"bob">>)>> >>),
      Obj(<< <<"video", Obj(<< <<"playAddr", UrlHttpsB>> >>)>>, <<"contents", EmptyList>> >>),
      Obj(<< <<"video", Obj(<< <<"playAddr", UrlHttpsB>> >>)>>, <<"music", Null>> >>),
      Obj(<< <<"video", Obj(<< <<"playAddr", UrlHttpsB>> >>)>>, <<"stats", Num(3)>> >>),
      \* no video, only metadata
      Obj(<< <<"desc", Str(<<"caption">>)>>, <<"author", Str(<<"bob">>)>> >>),
      \* located values that are no dict
      List(<<UrlHttps>>), Str(<<"x">>), Num(1) }

Items == UrlItems \cup OddItems

\* the records the locator's inputs hold
RecA == Obj(<< <<"id", Str(<<"7">>)>>, <<"video", Obj(<< <<"playAddr", UrlHttps>> >>)>> >>)
RecB == Obj(<< <<"id", Num(8)>>, <<"video", Obj(<< <<"playAddr", UrlHttpsB>> >>)>> >>)
RecC == Obj(<< <<"videoUrl", UrlHttp>> >>)

InInfo(rec) == Obj(<< <<"itemInfo", Obj(<< <<"itemStruct", rec>> >>)>> >>)

\* decoded structures that differ in where (and whether) a record sits
LocatorInputs ==
    {MkObj(<< <<"__DEFAULT_SCOPE__", sc>>, <<"videoDetail", vd>>, <<"itemStruct", st>>,
              <<"ItemModule", im>>, <<"itemInfo", ii>>, <<"misc", ms>> >>) :
        sc \in {Absent, EmptyObj, Null,
                Obj(<< <<"webapp.video-detail", InInfo(RecA)>> >>),
                Obj(<< <<"webapp.video-detail", Obj(<< <<"itemInfo", Null>> >>)>> >>)},
        vd \in {Absent, InInfo(RecC), Str(<<"x">>)},
        st \in {Absent, RecB, EmptyObj},
        im \in {Absent, EmptyObj, Null, List(<<RecA>>),
                Obj(<< <<"7", RecA>> >>), Obj(<< <<"9", RecC>> >>), Obj(<< <<"9", EmptyObj>> >>)},
        ii \in {Absent, Null, Obj(<< <<"itemStruct", RecC>> >>)},
        ms \in {Absent, List(<<Num(0), Obj(<< <<"deep", RecB>> >>)>>)}}

\* decoded structures that are no dict
OddInputs ==
    {List(<<RecA>>), List(<<Str(<<"itemStruct">>)>>), Str(<<"itemStruct">>), Str(<<"x">>), Num(1)}

SigiInputs ==
    LocatorInputs \cup OddInputs \cup {Obj(<< <<"itemStruct", it>> >>) : it \in Items}

(***************************************************************************)
(* SigiSpec: _extract_from_sigi applied to a decoded structure.            *)
(***************************************************************************)
NoRequest == [Referer |-> "none"]
NoLocate == [exc |-> "none", tried |-> <<>>, found |-> 0, item |-> Null]

SigiInit ==
    /\ pc = "sigi_input"
    /\ sigi_data \in SigiInputs
    /\ video_id \in VideoIds
    /\ url = <<>>
    /\ normalized_url = <<>>
    /\ fetch_headers = NoRequest
    /\ client_headers = NoRequest
    /\ log = <<>>
    /\ html = <<>>
    /\ located = NoLocate
    /\ outcome = NoOutcome

\* one call of _extract_from_sigi(sigi_data, video_id)
ExtractFromSigiCall ==
    /\ pc = "sigi_input"
    /\ pc' = "sigi_done"
    /\ located' = Locate(sigi_data, video_id)
    /\ outcome' = ExtractFromSigi(sigi_data, video_id)
    /\ UNCHANGED <<url, normalized_url, fetch_headers, client_headers, log, html,
                   video_id, sigi_data>>

SigiNext == ExtractFromSigiCall

SigiSpec == SigiInit /\ [][SigiNext]_vars

(***************************************************************************)
(* Inputs of _parse_sigi_state: pages.  A page is <html>, one or more      *)
(* blocks and </html>; a block embeds one content under one convention.    *)
(***************************************************************************)
MaxBlocks == 2      \* blocks of a page

\* compact JSON source of a value
RECURSIVE Ser(_), SerJoin(_, _)
Ser(v) ==
    CASE v.t = "null" -> <<"null">>
      [] v.t = "num"  -> <<ToString(v.n)>>
      [] v.t = "str"  -> <<Quote>> \o v.s \o <<Quote>>
      [] v.t = "list" -> <<"[">> \o SerJoin([i \in 1..Len(v.xs) |-> Ser(v.xs[i])], 1) \o <<"]">>
      [] v.t = "obj"  -> <<"{">> \o SerJoin([i \in 1..Len(v.kv) |->
                                      <<Quote, v.kv[i][1], Quote, ":">> \o Ser(v.kv[i][2])], 1)
                                 \o <<"}">>

SerJoin(parts, i) ==
    IF i > Len(parts) THEN <<>>
    ELSE IF i = Len(parts) THEN parts[i]
    ELSE parts[i] \o <<",">> \o SerJoin(parts, i + 1)

\* a record whose source holds no "}} before its end
RecFlat == Obj(<< <<"videoUrl", UrlHttpsB>>, <<"createTime", Num(5)>> >>)

\* the data blobs pages embed
BlobItemStruct == Obj(<< <<"itemStruct", RecA>> >>)
BlobItemModule == Obj(<< <<"ItemModule", Obj(<< <<"7", RecFlat>>, <<"tail", Str(<<"s">>)>> >>)>> >>)
BlobBraceInText ==
    Obj(<< <<"itemStruct", Obj(<< <<"video", Obj(<< <<"playAddr", UrlHttps>> >>)>>,
                                  <<"desc", Str(<<"a", "}", ";", "b">>)>> >>)>> >>)
Blobs == {BlobItemStruct, BlobItemModule, BlobBraceInText, EmptyObj}

\* what a block holds: the source of a blob, or text that is no JSON
Contents == {Ser(b) : b \in Blobs} \cup {<<"{", Quote, "itemStruct", Quote, ":">>}

TagConventions == {"api-data", "universal", "sigi", "persisted"}
LegacyConventions == {"window-sigi", "window-initial"}
Conventions == TagConventions \cup LegacyConventions \cup {"plain", "window-s"}

\* the block embedding content c under convention conv
Block(conv, c) ==
    CASE conv = "api-data" ->
            <<"<script id=\"api-data\"", " type=\"application/json\"", ">">> \o c \o <<CloseTag>>
      [] conv = "universal" ->
            <<"<script id=\"__UNIVERSAL_DATA_FOR_REHYDRATION__\"", " type=\"application/json\"", ">", "\n">>
            \o c \o <<"\n", CloseTag>>
      [] conv = "sigi" -> <<"<script id=\"SIGI_STATE\"", ">">> \o c \o <<CloseTag>>
      [] conv = "persisted" -> <<"<script id=\"sigi-persisted-data\"", ">">> \o c \o <<CloseTag>>
      [] conv = "window-sigi" ->
            <<"<script>", "window", "[", "'", "SIGI_STATE", "'", "]", " ", "=", " ">> \o c
            \o <<";", CloseTag>>
      [] conv = "window-initial" ->
            <<"<script>", "window", ".", "__INITIAL_STATE__", " ", "=", " ">> \o c \o <<";", CloseTag>>
      [] conv = "window-s" ->
            <<"<script>", "window", "S", "=">> \o c \o <<";", CloseTag>>
      [] conv = "plain" -> <<"<script>">> \o c \o <<CloseTag>>

Blocks == {Block(conv, c) : conv \in Conventions, c \in Contents}

RECURSIVE Concat(_)
Concat(ss) == IF ss = <<>> THEN <<>> ELSE Head(ss) \o Concat(Tail(ss))

PageOf(blocks) == <<"<html>">> \o Concat(blocks) \o <<"</html>">>

Pages == {PageOf(bs) : bs \in SeqsUpTo(Blocks, MaxBlocks) \ {<<>>}}

(***************************************************************************)
(* ParseSpec: _parse_sigi_state applied to a page.                         *)
(***************************************************************************)
ParseInit ==
    /\ pc = "parse_input"
    /\ html \in Pages
    /\ video_id = "7"
    /\ url = <<>>
    /\ normalized_url = <<>>
    /\ fetch_headers = NoRequest
    /\ client_headers = NoRequest
    /\ log = <<>>
    /\ sigi_data = Null
    /\ located = NoLocate
    /\ outcome = NoOutcome

\* one call of _parse_sigi_state(html, video_id)
ParseSigiStateCall ==
    /\ pc = "parse_input"
    /\ pc' = "parse_done"
    /\ \E handed \in {HandedOver(html)} :
          /\ sigi_data' = handed
          /\ located' = IF handed = Null THEN NoLocate ELSE Locate(handed, video_id)
    /\ outcome' = ParseSigiState(html, video_id)
    /\ UNCHANGED <<url, normalized_url, fetch_headers, client_headers, log, html, video_id>>

ParseNext == ParseSigiStateCall

ParseSpec == ParseInit /\ [][ParseNext]_vars

(***************************************************************************)
(* extract_video_data (lines 46-80) with _normalize_url (82-102),          *)
(* _fetch_html (104-139) and _extract_video_id (141-155).  The call        *)
(* suspends at each awaited request; an action is the code run between two *)
(* suspensions.                                                            *)
(***************************************************************************)
\* line 93
IsFullUrl(u) == Contains(u, <<"tiktok.com", "/@">>) /\ Contains(u, <<"/video/">>)

\* line 97 without the tiktok.com/t/ form
IsShortUrlDomainsOnly(u) ==
    Contains(u, <<"vm.", "tiktok.com">>) \/ Contains(u, <<"vt.", "tiktok.com">>)

\* line 97
IsShortUrl(u) ==
    \/ Contains(u, <<"vm.", "tiktok.com">>)
    \/ Contains(u, <<"vt.", "tiktok.com">>)
    \/ Contains(u, <<"tiktok.com", "/t/">>)

\* lines 93-97: _normalize_url issues its request
FollowsRedirect(u) == ~IsFullUrl(u) /\ IsShortUrl(u)

\* lines 152-155: re.search(r'/video/(\d+)', url); [ok, id]
ExtractVideoId(u) ==
    LET hits == {i \in 1..(Len(u) - 1) : u[i] = "/video/" /\ u[i + 1] \in NumberTokens}
    IN IF hits = {} THEN [ok |-> FALSE, id |-> ""]
       ELSE [ok |-> TRUE, id |-> u[Least(hits) + 1]]

\* line 110 and line 118
InitialReferer == "https://www.google.com/"
RetryReferer == "https://www.tiktok.com/"

\* line 132
WafMaxLen == 5000

\* line 132: "SlardarWAF" in content or "Please wait..." in content and len(content) < 5000
IsWafChallenge(text, len) ==
    \/ Contains(text, <<"SlardarWAF">>)
    \/ (Contains(text, <<"Please wait...">>) /\ len < WafMaxLen)

\* lines 136-137: the text parsed; raw is response.content decoded leniently
PageContent(body) ==
    IF StartsWith(body.text, <<"\\x1f\\x8b">>) \/ StartsWith(body.text, <<"\\x00">>)
    THEN body.raw
    ELSE body.text

\* line 128: "; ".join(f"{k}={v}" ...)
RECURSIVE CookieString(_)
CookieString(cookies) ==
    IF cookies = <<>> THEN <<>>
    ELSE <<cookies[1][1], "=", cookies[1][2]>>
         \o (IF Len(cookies) = 1 THEN <<>> ELSE <<"; ">> \o CookieString(Tail(cookies)))

\* lines 121-139 and 58-80: from the last response of _fetch_html to the end
\* of extract_video_data: [outcome, html, video_id]
Conclude(resp, nurl) ==
    LET vid == ExtractVideoId(nurl)
        content == PageContent(resp.body)
        parsed == CHOOSE res \in {ParseSigiState(page, vid.id) : page \in {content}} : TRUE
        none == [outcome |-> NoOutcome, html |-> <<>>, video_id |-> ""]
    IN
    IF resp.status = 403 THEN [none EXCEPT !.outcome = Raise("forbidden_or_blocked")]
    ELSE IF resp.status = 404 THEN [none EXCEPT !.outcome = Raise("not_found")]
    ELSE IF resp.status >= 400 THEN [none EXCEPT !.outcome = Raise("fetch_failed")]
    ELSE IF IsWafChallenge(resp.body.text, resp.body.len)
    THEN [none EXCEPT !.outcome = Raise("anti_bot_detected")]
    ELSE IF ~vid.ok THEN [none EXCEPT !.outcome = Raise("malformed_url"), !.html = content]
    ELSE [outcome  |-> IF parsed.kind = "ok"
                       THEN Ok(parsed.rec @@ [cookies |-> CookieString(resp.cookies)])
                       ELSE parsed,
          html     |-> content,
          video_id |-> vid.id]

\* what the network can answer
Statuses == {200, 403, 404, 500}
PlainBody(text) == [text |-> text, len |-> 6000, raw |-> text]
GoodPage == PageOf(<<Block("sigi", Ser(BlobItemStruct))>>)
Bodies ==
    {PlainBody(GoodPage),
     PlainBody(PageOf(<<Block("window-sigi", Ser(BlobItemStruct))>>)),
     PlainBody(PageOf(<<Block("universal", Ser(EmptyObj))>>)),
     PlainBody(<<"<html>", "SlardarWAF", "</html>">>),
     PlainBody(<<"<html>", "Please wait...", "</html>">>),
     [text |-> <<"<html>", "Please wait...", "</html>">>, len |-> 300,
      raw |-> <<"<html>", "Please wait...", "</html>">>],
     [text |-> <<"\\x1f\\x8b", "?">>, len |-> 6000, raw |-> GoodPage]}
CookieJars == {<<>>, << <<"ttwid", "1">>, <<"msToken", "x">> >>}
Responses ==
    {[status |-> 200, body |-> b, cookies |-> c] : b \in Bodies, c \in CookieJars}
    \cup {[status |-> st, body |-> PlainBody(<<>>), cookies |-> <<>>] : st \in Statuses \ {200}}

FullUrl == <<"https:", "//", "www.", "tiktok.com", "/@", "user", "/video/", "7">>
InputUrls ==
    {FullUrl,
     <<"https:", "//", "vm.", "tiktok.com", "/", "ZM">>,
     <<"https:", "//", "vt.", "tiktok.com", "/", "ZM">>,
     <<"https:", "//", "www.", "tiktok.com", "/t/", "ZM">>,
     <<"https:", "//", "vm.", "tiktok.com", "/@", "user", "/video/", "7">>,
     <<"https:", "//", "m.", "tiktok.com", "/v", "/video/", "8">>,
     <<"https:", "//", "www.", "tiktok.com", "/">>}
\* where a short link can lead
ResolvedUrls == {FullUrl, <<"https:", "//", "www.", "tiktok.com", "/">>}

RedirectRequest(u) == [kind |-> "redirect", url |-> u, Referer |-> "none"]
PageRequest(u, headers) == [kind |-> "page", url |-> u, Referer |-> headers.Referer]
Answer(kind, resp) == [kind |-> kind, status |-> resp.status, body |-> resp.body,
                       cookies |-> resp.cookies]
Failure == [kind |-> "failure"]

Init ==
    /\ pc = "start"
    /\ url \in InputUrls
    /\ normalized_url = <<>>
    /\ fetch_headers = NoRequest
    /\ client_headers = NoRequest
    /\ log = <<>>
    /\ html = <<>>
    /\ video_id = ""
    /\ sigi_data = Null
    /\ located = NoLocate
    /\ outcome = NoOutcome

\* lines 108-113: _fetch_html up to its first awaited GET.
\* httpx.AsyncClient(headers=fetch_headers) builds the client's own Headers
\* object from the mapping it is given; client.get(url) sends the client's
\* headers.  The dict fetch_headers and the client's headers are therefore
\* two pieces of state, equal when the client is built.
StartFetch(nurl) ==
    /\ normalized_url' = nurl
    /\ fetch_headers' = [Referer |-> InitialReferer]
    /\ client_headers' = [Referer |-> InitialReferer]
    /\ log' = Append(log, PageRequest(nurl, [Referer |-> InitialReferer]))
    /\ pc' = "await_get1"

\* lines 52, 93-99: the call starts; a short link suspends at the redirect
\* request, any other URL goes on to the first GET of _fetch_html
Begin ==
    /\ pc = "start"
    /\ IF FollowsRedirect(url)
       THEN /\ log' = Append(log, RedirectRequest(url))
            /\ pc' = "await_redirect"
            /\ UNCHANGED <<normalized_url, fetch_headers, client_headers>>
       ELSE StartFetch(url)
    /\ UNCHANGED <<url, html, video_id, sigi_data, located, outcome>>

\* lines 99-100: the redirect request completes at its final location
RedirectResolved ==
    /\ pc = "await_redirect"
    /\ \E final \in ResolvedUrls, st \in Statuses :
          /\ normalized_url' = final
          /\ fetch_headers' = [Referer |-> InitialReferer]
          /\ client_headers' = [Referer |-> InitialReferer]
          /\ log' = log \o <<[kind |-> "redirect_response", status |-> st, url |-> final],
                             PageRequest(final, [Referer |-> InitialReferer])>>
          /\ pc' = "await_get1"
    /\ UNCHANGED <<url, html, video_id, sigi_data, located, outcome>>

\* a request fails in the network (connection error, timeout): the
\* exception reaches "except Exception" at line 78
RequestFails ==
    /\ pc \in {"await_redirect", "await_get1", "await_get2"}
    /\ pc' = "done"
    /\ outcome' = Raise("network_error")
    /\ log' = Append(log, Failure)
    /\ UNCHANGED <<url, normalized_url, fetch_headers, client_headers, html, video_id,
                   sigi_data, located>>

\* the call ends with the response resp
Finish(resp) ==
    \E c \in {Conclude(resp, normalized_url)} :
    \E handed \in {IF c.video_id = "" THEN Null ELSE HandedOver(c.html)} :
       /\ pc' = "done"
       /\ outcome' = c.outcome
       /\ html' = c.html
       /\ video_id' = c.video_id
       /\ sigi_data' = handed
       /\ located' = IF handed = Null THEN NoLocate ELSE Locate(handed, c.video_id)

\* lines 113-119: the first GET answers; on 403 line 118 assigns the new
\* Referer to the dict fetch_headers and line 119 sends the GET again through
\* the same client, that is, with client_headers
FirstResponse ==
    /\ pc = "await_get1"
    /\ \E resp \in Responses :
          IF resp.status = 403
          THEN /\ fetch_headers' = [fetch_headers EXCEPT !.Referer = RetryReferer]
               /\ log' = log \o <<Answer("page_response", resp),
                                  PageRequest(normalized_url, client_headers)>>
               /\ pc' = "await_get2"
               /\ UNCHANGED <<client_headers, html, video_id, sigi_data, located, outcome>>
          ELSE /\ log' = Append(log, Answer("page_response", resp))
               /\ Finish(resp)
               /\ UNCHANGED <<fetch_headers, client_headers>>
    /\ UNCHANGED <<url, normalized_url>>

\* lines 119-139: the second GET answers
SecondResponse ==
    /\ pc = "await_get2"
    /\ \E resp \in Responses :
          /\ log' = Append(log, Answer("page_response", resp))
          /\ Finish(resp)
    /\ UNCHANGED <<url, normalized_url, fetch_headers, client_headers>>

Next == Begin \/ RedirectResolved \/ RequestFails \/ FirstResponse \/ SecondResponse

Spec == Init /\ [][Next]_vars

(***************************************************************************)
(* Properties of _extract_from_sigi (SigiSpec)                             *)
(***************************************************************************)
SigiDone == pc = "sigi_done"

\* the item the locator handed to the normaliser, and the URLs collected from it
LocatedItem == located.item
CollectedUrls ==
    IF LocatedItem.t = "obj" /\ VideoObj(LocatedItem).t = "obj"
    THEN CollectUrls(LocatedItem, VideoObj(LocatedItem))
    ELSE <<>>

\* u is a string of one of the forms //..., http://..., https://...
HasSchemeForm(u) ==
    /\ u.t = "str"
    /\ \/ StartsWith(u.s, <<"//">>)
       \/ StartsWith(u.s, <<"http:", "//">>)
       \/ StartsWith(u.s, <<"https:", "//">>)

NoDuplicates(xs) == \A i, j \in 1..Len(xs) : xs[i] = xs[j] => i = j

\* C3: for every item record whose collected URLs have the forms //, http://
\* or https://, the returned alternative_urls holds no entry twice and does
\* not hold the returned mp4_url.
C3_AlternatesDistinct ==
    (/\ SigiDone
     /\ outcome.kind = "ok"
     /\ \A i \in 1..Len(CollectedUrls) : HasSchemeForm(CollectedUrls[i]))
    => /\ NoDuplicates(outcome.rec.alternative_urls)
       /\ ~InSeq(outcome.rec.mp4_url, outcome.rec.alternative_urls)

\* C4: every returned record has an mp4_url that is non-empty and starts
\* with https://.
C4_PrimaryIsHttps ==
    (SigiDone /\ outcome.kind = "ok")
    => /\ outcome.rec.mp4_url # <<>>
       /\ StartsWith(outcome.rec.mp4_url, <<"https:", "//">>)

\* a located item record (a dict) without a video sub-object
LocatedWithoutVideo ==
    /\ SigiDone
    /\ located.found # 0
    /\ LocatedItem.t = "obj"
    /\ ~HasKey(LocatedItem, "video")

RECURSIVE AtPath(_, _)
AtPath(v, keys) ==
    IF keys = <<>> THEN v
    ELSE IF v.t = "obj" /\ HasKey(v, Head(keys)) THEN AtPath(Lookup(v, Head(keys)), Tail(keys))
    ELSE Null

\* a decoded dict without the scoping key and with a top-level itemStruct key
UnscopedWithItemStruct ==
    /\ SigiDone
    /\ sigi_data.t = "obj"
    /\ ~HasKey(sigi_data, "__DEFAULT_SCOPE__")
    /\ HasKey(sigi_data, "itemStruct")

SelectsItemStruct ==
    /\ located.found = 2
    /\ located.item = Lookup(sigi_data, "itemStruct")
    /\ located.tried = <<1, 2>>

\* C7 as stated: without the scoping key and with a top-level itemStruct key
\* the locator selects that key's value and evaluates none of strategies 3-6.
C7_ItemStructSelected == UnscopedWithItemStruct => SelectsItemStruct

\* C7 amended: for a decoded dict without the scoping key whose top-level
\* itemStruct value is non-empty and whose videoDetail.itemInfo.itemStruct
\* path holds no non-empty record, the locator selects the itemStruct value
\* and evaluates none of strategies 3-6.
C7_NonEmptyItemStructSelected ==
    (/\ UnscopedWithItemStruct
     /\ ~Truthy(AtPath(sigi_data, <<"videoDetail", "itemInfo", "itemStruct">>))
     /\ Truthy(Lookup(sigi_data, "itemStruct")))
    => SelectsItemStruct

C7_Witness ==
    /\ UnscopedWithItemStruct
    /\ HasKey(sigi_data, "videoDetail")
    /\ HasKey(sigi_data, "ItemModule")
    /\ HasKey(sigi_data, "itemInfo")
    /\ SelectsItemStruct
    /\ outcome.kind = "ok"

\* C8: for a decoded dict, no internal error of a single strategy leaves the
\* record locator: it yields a record or fails with record-not-found.
C8_StrategyErrorsSwallowed ==
    (SigiDone /\ sigi_data.t = "obj") => located.exc \in {"none", "record_not_found"}

\* strategies 1-5, each taken alone, yield no record for sigi
FirstFiveYieldNothing(sigi, vid) ==
    /\ ~Truthy(Strategy1(sigi).item)
    /\ ~Truthy(Strategy2(sigi, Null).item)
    /\ Strategy3(sigi, vid).exc = "none"
    /\ ~Truthy(Strategy3(sigi, vid).item)
    /\ ~Truthy(Strategy4(sigi, vid).item)
    /\ TakesFirstEntry(sigi) => ~Truthy(Strategy5(sigi).item)

\* C9: whenever strategies 1-5 yield no record and itemInfo.itemStruct holds
\* one, that record is used, also when ItemModule exists and is non-empty.
C9_LastStrategyReached ==
    (/\ SigiDone
     /\ sigi_data.t = "obj"
     /\ FirstFiveYieldNothing(sigi_data, video_id)
     /\ Truthy(AtPath(sigi_data, <<"itemInfo", "itemStruct">>)))
    => /\ located.found = 6
       /\ located.item = AtPath(sigi_data, <<"itemInfo", "itemStruct">>)

(***************************************************************************)
(* Properties of _parse_sigi_state (ParseSpec)                             *)
(***************************************************************************)
ParseDone == pc = "parse_done"

\* the page that embeds blob b under convention conv and nothing else
PageEmbedding(conv, b) == PageOf(<<Block(conv, Ser(b))>>)

\* C6: a page that embeds a blob only through a legacy global-variable
\* assignment is parsed to the same result as the page that embeds the same
\* blob in the tagged script block SIGI_STATE.
C6_LegacyParsedAsTagged ==
    \A b \in Blobs, conv \in LegacyConventions :
        (ParseDone /\ html = PageEmbedding(conv, b))
        => outcome = ParseSigiState(PageEmbedding("sigi", b), video_id)

\* the patterns whose capture decodes, taken one by one
DecodingPatterns == {k \in 1..NumPatterns : PatternDecodes(k, html)}

\* C10: the value of the first pattern (in the fixed order) whose capture
\* decodes is handed to the record locator, and data-not-found is raised
\* only when no pattern capture and no last-resort span decodes.
C10_FirstDecodedIsUsed ==
    ParseDone =>
       /\ DecodingPatterns # {}
            => /\ sigi_data = TryPattern(Least(DecodingPatterns), html).v
               /\ outcome = ExtractFromSigi(sigi_data, video_id)
       /\ outcome = Raise("data_not_found")
            => (DecodingPatterns = {} /\ ~LastResort(html).ok)

(***************************************************************************)
(* Properties of extract_video_data (Spec)                                 *)
(***************************************************************************)
PageRequests == SelectSeq(log, LAMBDA e : e.kind = "page")
PageResponses == SelectSeq(log, LAMBDA e : e.kind = "page_response")
RedirectRequests == SelectSeq(log, LAMBDA e : e.kind = "redirect")

\* at most two GETs; a second one exactly after a first 403; a second 403 is
\* reported as blocked
FetchRetriesOnce ==
    /\ Len(PageRequests) <= 2
    /\ Len(PageResponses) >= 1
         => (Len(PageRequests) = 2 <=> PageResponses[1].status = 403)
    /\ (Len(PageResponses) = 2 /\ PageResponses[2].status = 403)
         => outcome = Raise("forbidden_or_blocked")

\* C1: after a first 403 exactly one further GET is issued, with a Referer
\* different from the first request's; a second 403 is reported as blocked
\* and no third GET is issued.
C1_RetryOnceWithChangedReferer ==
    /\ FetchRetriesOnce
    /\ Len(PageRequests) = 2 => PageRequests[2].Referer # PageRequests[1].Referer

\* the claim's URL shapes
MatchesShortLink(u) ==
    \/ Contains(u, <<"vm.", "tiktok.com">>)
    \/ Contains(u, <<"vt.", "tiktok.com">>)
    \/ Contains(u, <<"tiktok.com", "/t/">>)
MatchesFullShape(u) == Contains(u, <<"tiktok.com", "/@">>) /\ Contains(u, <<"/video/">>)

\* one redirect request, first in the log and answered before any page GET
OneRedirectBeforeFetch ==
    /\ Len(RedirectRequests) = 1
    /\ log[1].kind = "redirect"
    /\ \A i \in 1..Len(log) :
          log[i].kind = "page" => \E j \in 1..(i - 1) : log[j].kind = "redirect_response"

\* C2 as stated: for every input URL that matches a short-link pattern the
\* call issues exactly one redirect request, completed before the page GET.
C2_ShortLinkResolvedOnce ==
    (pc # "start" /\ MatchesShortLink(url)) => OneRedirectBeforeFetch

\* C2 amended: for every input URL that matches a short-link pattern and
\* does not already have the full shape (tiktok.com/@ and /video/), the call
\* issues exactly one redirect request, completed before the page GET.
C2_ShortNotFullResolvedOnce ==
    (pc # "start" /\ MatchesShortLink(url) /\ ~MatchesFullShape(url))
    => OneRedirectBeforeFetch

C2_Witness ==
    /\ pc = "done"
    /\ Contains(url, <<"tiktok.com", "/t/">>)
    /\ ~MatchesFullShape(url)
    /\ OneRedirectBeforeFetch
    /\ Len(PageRequests) = 1
    /\ outcome.kind = "ok"

====
